---- MODULE Spec2Model ----
(***************************************************************************)
(* Model of src/ai.py: the /ask_tutor endpoint of the AI TutorBot.         *)
(*                                                                         *)
(* The service runs on one asyncio event loop, so the code between two     *)
(* suspension points (await on the lock, await asyncio.sleep, await        *)
(* client.post) runs without interleaving.  Each action below is one such  *)
(* run of a request, from the suspension point it wakes from to the next   *)
(* one it blocks on.  Time is a global integer clock, in seconds, that     *)
(* advances with the sleeps: a sleeper wakes at its deadline or, when      *)
(* other sleepers have passed it, later; a request arrives at the start    *)
(* or when some sleeper wakes, and a post returns in no time or when some  *)
(* sleeper wakes.                                                          *)
(***************************************************************************)
EXTENDS Integers, Sequences, FiniteSets, TLC

\* ---------------------------------------------------------------- bounds
NumRequests == 3
MaxContentLen == 2

\* ------------------------------------------------------ program constants
MIN_DELAY == 10
retries == 3
SENTINEL == 0

\* time.time() at process start: seconds since the epoch, far above MIN_DELAY
Epoch == MIN_DELAY + 2

Requests == 1..NumRequests
NoOne == 0

\* ------------------------------------------------------------ strings
\* A string is a sequence of one-character strings.
Whitespace == {" "}
Digits == {"0", "1", "2", "3", "4", "5", "6", "7", "8", "9"}

RECURSIVE lstrip(_)
lstrip(s) == IF s # <<>> /\ Head(s) \in Whitespace THEN lstrip(Tail(s)) ELSE s

RECURSIVE rstrip(_)
rstrip(s) ==
  IF s # <<>> /\ s[Len(s)] \in Whitespace
  THEN rstrip(SubSeq(s, 1, Len(s) - 1)) ELSE s

\* str.strip()
strip(s) == rstrip(lstrip(s))

DigitVal(c) ==
  CASE c = "0" -> 0 [] c = "1" -> 1 [] c = "2" -> 2 [] c = "3" -> 3
    [] c = "4" -> 4 [] c = "5" -> 5 [] c = "6" -> 6 [] c = "7" -> 7
    [] c = "8" -> 8 [] c = "9" -> 9

RECURSIVE DecVal(_)
DecVal(s) == IF s = <<>> THEN 0
             ELSE 10 * DecVal(SubSeq(s, 1, Len(s) - 1)) + DigitVal(s[Len(s)])

AllDigits(s) == s # <<>> /\ \A i \in 1..Len(s) : s[i] \in Digits

\* int(str): surrounding whitespace, an optional sign, decimal digits.
\* IntParses says whether int() returns, IntOf what it returns.
IntBody(s) == IF s # <<>> /\ Head(s) \in {"-", "+"} THEN Tail(s) ELSE s
IntParses(s) == AllDigits(IntBody(strip(s)))
IntOf(s) == IF strip(s) # <<>> /\ Head(strip(s)) = "-"
            THEN 0 - DecVal(IntBody(strip(s)))
            ELSE DecVal(IntBody(strip(s)))

RECURSIVE Pow2(_)
Pow2(n) == IF n = 0 THEN 1 ELSE 2 * Pow2(n - 1)

Max(a, b) == IF a >= b THEN a ELSE b

\* ------------------------------------------------------ upstream replies
\* What one client.post can come back with.
NoHeader == <<"<", "a", "b", "s", "e", "n", "t", ">">>
RetryAfterHeaders == { <<"1", "2">>, <<"W", "e", "d">> }

RECURSIVE SeqsUpTo(_, _)
SeqsUpTo(S, n) ==
  IF n = 0 THEN {<<>>}
  ELSE SeqsUpTo(S, n - 1) \cup
       {Append(s, c) : s \in {t \in SeqsUpTo(S, n - 1) : Len(t) = n - 1}, c \in S}

Contents == SeqsUpTo({" ", "a"}, MaxContentLen)

Response(k, st, c, h) == [kind |-> k, status |-> st, content |-> c, retry_after |-> h]

Responses ==
  {Response("json", 200, c, NoHeader) : c \in Contents}
  \cup {Response("malformed", 200, <<>>, NoHeader)}
  \cup {Response("transport", 0, <<>>, NoHeader)}
  \cup {Response("status", 500, <<>>, NoHeader)}
  \cup {Response("status", 429, <<>>, h) : h \in RetryAfterHeaders \cup {NoHeader}}

BackgroundResponses == {Response("json", 200, <<"a">>, NoHeader)}

NoResponse == Response("none", 0, <<>>, NoHeader)

\* ------------------------------------------------------ the prompt
\* str.lower(), on ASCII letters
UpperCase ==
  <<"A", "B", "C", "D", "E", "F", "G", "H", "I", "J", "K", "L", "M", "N",
      "O", "P", "Q", "R", "S", "T", "U", "V", "W", "X", "Y", "Z">>
LowerCase ==
  <<"a", "b", "c", "d", "e", "f", "g", "h", "i", "j", "k", "l", "m", "n",
      "o", "p", "q", "r", "s", "t", "u", "v", "w", "x", "y", "z">>
lower_char(c) ==
  IF \E i \in 1..Len(UpperCase) : UpperCase[i] = c
  THEN LowerCase[CHOOSE i \in 1..Len(UpperCase) : UpperCase[i] = c]
  ELSE c
\* a lookup that does not fold the case
lower_Identity(s) == s

\* str.lower (line 69)
lower(s) == [i \in 1..Len(s) |-> lower_char(s[i])]

\* the keys and the sentences of the dict `prompts` (lines 59-68)
key_math ==
  <<"m", "a", "t", "h">>
intro_math ==
  <<"Y", "o", "u", " ", "a", "r", "e", " ", "a", " ", "f", "r", "i", "e",
      "n", "d", "l", "y", " ", "M", "a", "t", "h", " ", "t", "u", "t", "o",
      "r", ".">>
key_science ==
  <<"s", "c", "i", "e", "n", "c", "e">>
intro_science ==
  <<"Y", "o", "u", " ", "e", "x", "p", "l", "a", "i", "n", " ", "s", "c",
      "i", "e", "n", "c", "e", " ", "w", "i", "t", "h", " ", "c", "l", "a",
      "r", "i", "t", "y", " ", "a", "n", "d", " ", "e", "x", "c", "i", "t",
      "e", "m", "e", "n", "t", ".">>
key_sst ==
  <<"s", "s", "t">>
intro_sst ==
  <<"Y", "o", "u", " ", "t", "e", "a", "c", "h", " ", "S", "o", "c", "i",
      "a", "l", " ", "S", "t", "u", "d", "i", "e", "s", " ", "u", "s", "i",
      "n", "g", " ", "r", "e", "l", "a", "t", "a", "b", "l", "e", " ", "e",
      "x", "a", "m", "p", "l", "e", "s", ".">>
key_english ==
  <<"e", "n", "g", "l", "i", "s", "h">>
intro_english ==
  <<"Y", "o", "u", " ", "h", "e", "l", "p", " ", "s", "t", "u", "d", "e",
      "n", "t", "s", " ", "l", "e", "a", "r", "n", " ", "E", "n", "g", "l",
      "i", "s", "h", " ", "u", "s", "i", "n", "g", " ", "s", "i", "m", "p",
      "l", "e", " ", "g", "r", "a", "m", "m", "a", "r", " ", "t", "i", "p",
      "s", " ", "a", "n", "d", " ", "v", "o", "c", "a", "b", "u", "l", "a",
      "r", "y", ".">>
key_biology ==
  <<"b", "i", "o", "l", "o", "g", "y">>
intro_biology ==
  <<"Y", "o", "u", " ", "e", "x", "p", "l", "a", "i", "n", " ", "b", "i",
      "o", "l", "o", "g", "y", " ", "c", "o", "n", "c", "e", "p", "t", "s",
      " ", "v", "i", "s", "u", "a", "l", "l", "y", " ", "a", "n", "d", " ",
      "c", "l", "e", "a", "r", "l", "y", ".">>
key_chemistry ==
  <<"c", "h", "e", "m", "i", "s", "t", "r", "y">>
intro_chemistry ==
  <<"Y", "o", "u", " ", "e", "x", "p", "l", "a", "i", "n", " ", "c", "h",
      "e", "m", "i", "s", "t", "r", "y", " ", "u", "s", "i", "n", "g", " ",
      "e", "v", "e", "r", "y", "d", "a", "y", " ", "e", "x", "a", "m", "p",
      "l", "e", "s", ".">>
key_coding ==
  <<"c", "o", "d", "i", "n", "g">>
intro_coding ==
  <<"Y", "o", "u", " ", "t", "e", "a", "c", "h", " ", "p", "r", "o", "g",
      "r", "a", "m", "m", "i", "n", "g", " ", "w", "i", "t", "h", " ", "c",
      "l", "e", "a", "r", " ", "c", "o", "d", "e", " ", "s", "a", "m", "p",
      "l", "e", "s", ".">>
key_history ==
  <<"h", "i", "s", "t", "o", "r", "y">>
intro_history ==
  <<"Y", "o", "u", " ", "e", "x", "p", "l", "a", "i", "n", " ", "h", "i",
      "s", "t", "o", "r", "y", " ", "a", "s", " ", "e", "n", "g", "a", "g",
      "i", "n", "g", " ", "s", "t", "o", "r", "i", "e", "s", ".">>
intro_default ==
  <<"Y", "o", "u", " ", "a", "r", "e", " ", "a", " ", "h", "e", "l", "p",
      "f", "u", "l", " ", "A", "I", " ", "t", "u", "t", "o", "r", ".">>
prompts ==
  <<[key |-> key_math, intro |-> intro_math],
    [key |-> key_science, intro |-> intro_science],
    [key |-> key_sst, intro |-> intro_sst],
    [key |-> key_english, intro |-> intro_english],
    [key |-> key_biology, intro |-> intro_biology],
    [key |-> key_chemistry, intro |-> intro_chemistry],
    [key |-> key_coding, intro |-> intro_coding],
    [key |-> key_history, intro |-> intro_history]>>

\* prompts.get(k, default)
prompts_get(k, default) ==
  IF \E i \in 1..Len(prompts) : prompts[i].key = k
  THEN prompts[CHOOSE i \in 1..Len(prompts) : prompts[i].key = k].intro
  ELSE default

\* the literal parts of the f-strings of lines 71-73
txt_student ==
  <<" ", "T", "h", "e", " ", "s", "t", "u", "d", "e", "n", "t", " ", "i",
      "s", " ", "a", "t", " ", "a", " ">>
txt_level ==
  <<" ", "l", "e", "v", "e", "l", ".", "\n">>
txt_asked ==
  <<"T", "h", "e", "y", " ", "a", "s", "k", "e", "d", ":", " ", "\"">>
txt_quote ==
  <<"\"", "\n">>
txt_closing ==
  <<"P", "l", "e", "a", "s", "e", " ", "e", "x", "p", "l", "a", "i", "n",
      " ", "i", "n", " ", "a", " ", "c", "l", "e", "a", "r", ",", " ", "f",
      "r", "i", "e", "n", "d", "l", "y", " ", "t", "o", "n", "e", " ", "w",
      "i", "t", "h", " ", "e", "x", "a", "m", "p", "l", "e", "s", ".">>

\* build_prompt that escapes the quotation marks of the question
build_prompt_Escapes(subject, level, question) ==
  LET intro == prompts_get(lower(subject), intro_default)
      esc[i \in 0..Len(question)] ==
        IF i = 0 THEN <<>>
        ELSE esc[i - 1] \o (IF question[i] = "\"" THEN <<"\\", "\"">>
                                                 ELSE <<question[i]>>)
  IN intro \o txt_student \o level \o txt_level
       \o txt_asked \o esc[Len(question)] \o txt_quote
       \o txt_closing

\* build_prompt (lines 58-74)
build_prompt(subject, level, question) ==
  LET intro == prompts_get(lower(subject), intro_default)
  IN intro \o txt_student \o level \o txt_level
       \o txt_asked \o question \o txt_quote
       \o txt_closing

\* TutorRequest (lines 31-35)
TutorRequest(id, subject, level, question) ==
  [student_id |-> id, subject |-> subject, level |-> level, question |-> question]

\* the requests the clients send: request p comes from student p
SampleSubjects == <<<<"M", "a", "t", "h">>, <<"s", "s", "t">>, <<"a", "r", "t">>>>
level_P5 == <<"P", "5">>
question_sum == <<"2", "+", "2", "?">>
student(p) == [i \in 1..p |-> "s"]
TutorRequestOf(p) ==
  TutorRequest(student(p), SampleSubjects[((p - 1) % Len(SampleSubjects)) + 1],
               level_P5, question_sum)

\* ------------------------------------------------------------ variables
VARIABLES
  clock,           \* time.time()
  api_key,         \* OPENROUTER_API_KEY is set (read once at import)
  api_lock,        \* app.state.api_lock: its holder, NoOne when free
  last_call_time,  \* app.state.last_call_time
  pc,              \* where each request is suspended
  wake,            \* deadline of the asyncio.sleep the request is in
  wait_time,       \* wait_time of the request sleeping in the gate
  attempt,         \* loop variable of ask_openrouter (0: loop not entered)
  resp,            \* the response of the request's latest client.post
  log,             \* what ask_openrouter did: its posts, replies and sleeps
  ga_result,       \* how ask_openrouter ended
  http,            \* what ask_tutor answered
  request,         \* the TutorRequest of each request
  prompt,          \* the prompt built for the request (empty: not yet)
  body,            \* the JSON body ask_tutor returned (none or one)
  last_post        \* start time of the latest client.post of any request (0: none)

vars == <<clock, api_key, api_lock, last_call_time, pc, wake, wait_time,
          attempt, resp, log, ga_result, http, request, prompt, body, last_post>>

\* ------------------------------------------------------ records of a run
Event(e, k, n) == [ev |-> e, kind |-> k, arg |-> n]
CallEv(a) == Event("call", "post", a)
SleepEv(d) == Event("sleep", "backoff", d)

\* the class of a reply, as the branches of ask_openrouter tell them apart
Class(r) ==
  CASE r.kind = "transport" -> "transport"
    [] r.kind = "malformed" -> "malformed"
    [] r.kind = "status" /\ r.status = 429 -> "429"
    [] r.kind = "status" /\ r.status # 429 -> "status"
    [] r.kind = "json" /\ strip(r.content) = <<>> -> "empty"
    [] r.kind = "json" /\ strip(r.content) # <<>> -> "ok"
RespEv(a, r) == Event("resp", Class(r), a)

Result(k, v, c) == [kind |-> k, value |-> v, code |-> c]
Pending == Result("pending", <<>>, 0)
Return(v) == Result("return", v, 0)
ReturnNone == Result("return_none", <<>>, 0)
HTTPException(c) == Result("HTTPException", <<>>, c)
ValueError == Result("ValueError", <<>>, 0)

Apology == <<"A", "p", "o", "l", "o", "g", "i", "e", "s">>
Http(st, a) == [status |-> st, answer |-> a]
NoHttp == Http(0, <<>>)

\* ------------------------------------------------- ask_openrouter, one reply
\* reply without the strip()
reply_NoStrip(r) == r.content

\* reply = data.get("choices", [{}])[0].get("message", {}).get("content", "").strip()
reply(r) == strip(r.content)

\* asyncio.sleep(2 ** attempt)
Backoff(a) == Pow2(a)

\* retry_after that never reads the header
retry_after_NoHeader(a, r) == Pow2(a)

\* int(e.response.headers.get("Retry-After", 2 ** attempt))
retry_after(a, r) ==
  IF r.retry_after = NoHeader THEN Backoff(a) ELSE IntOf(r.retry_after)
retry_after_raises(r) ==
  r.retry_after # NoHeader /\ ~IntParses(r.retry_after)

Step(act, d, res) == [act |-> act, d |-> d, res |-> res]

\* except Exception as e: (lines 125-130)
OnException(a) ==
  IF a = retries THEN Step("end", 0, HTTPException(502))
  ELSE Step("sleep", Backoff(a), Pending)

\* except httpx.HTTPStatusError as e: (lines 117-124)
OnStatusError(a, r) ==
  IF r.status = 429
  THEN IF retry_after_raises(r) THEN Step("end", 0, ValueError)
       ELSE Step("sleep", retry_after(a, r), Pending)
  ELSE IF a = retries THEN Step("end", 0, HTTPException(502))
       ELSE Step("next", 0, Pending)

\* OnJson retrying an empty reply at once, without the sleep of line 112
OnJson_NoBackoff(a, r) ==
  IF reply(r) = <<>>
  THEN IF a = retries THEN OnException(a)
       ELSE Step("next", 0, Pending)
  ELSE Step("end", 0, Return(reply(r)))

\* the try body after the post came back with a 2xx JSON body (lines 102-115)
OnJson(a, r) ==
  IF reply(r) = <<>>
  THEN IF a = retries THEN OnException(a)   \* ValueError, caught at line 125
       ELSE Step("sleep", Backoff(a), Pending)
  ELSE Step("end", 0, Return(reply(r)))

\* what the loop body does with the reply r of attempt a
OnResponse(a, r) ==
  CASE r.kind = "transport" -> OnException(a)
    [] r.kind = "status" -> OnStatusError(a, r)
    [] r.kind = "malformed" -> OnException(a)
    [] r.kind = "json" -> OnJson(a, r)

\* Answer without the fallback of lines 141-143
Answer_NoFallback(res) ==
  CASE res.kind = "return" -> Http(200, res.value)
    [] res.kind = "return_none" -> Http(200, <<>>)
    [] res.kind = "HTTPException" -> Http(res.code, <<>>)
    [] res.kind = "ValueError" -> Http(500, <<>>)

\* ask_tutor after ask_openrouter ended with res (lines 138-151, and the
\* framework's translation of an exception into a status code)
Answer(res) ==
  CASE res.kind = "return" -> Http(200, IF res.value = <<>> THEN Apology ELSE res.value)
    [] res.kind = "return_none" -> Http(200, Apology)
    [] res.kind = "HTTPException" -> Http(res.code, <<>>)
    [] res.kind = "ValueError" -> Http(500, <<>>)

\* the dict ask_tutor returns (lines 145-151)
TutorResponse(req, answer) ==
  [student_id |-> req.student_id, subject |-> req.subject, level |-> req.level,
   question |-> req.question, answer |-> answer]

\* the body of the reply to req when ask_openrouter ended with res: the
\* dict on a 200, none when an exception went out
Body(req, res) ==
  IF Answer(res).status = 200
  THEN <<TutorResponse(req, Answer(res).answer)>>
  ELSE <<>>

\* ------------------------------------------------------------ Init
Init ==
  /\ clock = Epoch
  /\ api_key \in BOOLEAN
  /\ api_lock = NoOne
  /\ last_call_time = SENTINEL
  /\ pc = [p \in Requests |-> "idle"]
  /\ wake = [p \in Requests |-> 0]
  /\ wait_time = [p \in Requests |-> 0]
  /\ attempt = [p \in Requests |-> 0]
  /\ resp = [p \in Requests |-> NoResponse]
  /\ log = [p \in Requests |-> <<>>]
  /\ ga_result = [p \in Requests |-> Pending]
  /\ http = [p \in Requests |-> NoHttp]
  /\ request = [p \in Requests |-> TutorRequestOf(p)]
  /\ prompt = [p \in Requests |-> <<>>]
  /\ body = [p \in Requests |-> <<>>]
  /\ last_post = 0

\* ------------------------------------------------------------ steps
\* Every step below yields its new values from the time `now` at which the
\* request runs.

\* ask_openrouter ends with res, and ask_tutor with it
Finish(p, res) ==
  /\ pc' = [pc EXCEPT ![p] = "done"]
  /\ ga_result' = [ga_result EXCEPT ![p] = res]
  /\ http' = [http EXCEPT ![p] = Answer(res)]
  /\ body' = [body EXCEPT ![p] = Body(request[p], res)]

\* response = await client.post(...) of attempt a (line 100)
Post(p, a, now) ==
  /\ pc' = [pc EXCEPT ![p] = "post"]
  /\ attempt' = [attempt EXCEPT ![p] = a]
  /\ log' = [log EXCEPT ![p] = Append(@, CallEv(a))]
  /\ last_post' = now
  /\ UNCHANGED <<ga_result, http, body>>

\* ask_openrouter without the check of the key
ask_openrouter_NoKeyCheck(p, now) == Post(p, 1, now)

\* ask_openrouter is entered (lines 77-98)
ask_openrouter(p, now) ==
  IF ~api_key
  THEN /\ Finish(p, HTTPException(500))
       /\ UNCHANGED <<attempt, log, last_post>>
  ELSE Post(p, 1, now)

\* LeaveGate that keeps the lock for the upstream call
LeaveGate_KeepsLock(p, now) ==
  /\ last_call_time' = now
  /\ api_lock' = p
  /\ prompt' = [prompt EXCEPT ![p] =
                  build_prompt(request[p].subject, request[p].level,
                               request[p].question)]
  /\ ask_openrouter(p, now)

\* wait_for_rate_limit line 55 and the release of the lock, then the rest of
\* ask_tutor up to its next suspension
LeaveGate(p, now) ==
  /\ last_call_time' = now
  /\ api_lock' = NoOne
  /\ prompt' = [prompt EXCEPT ![p] =
                  build_prompt(request[p].subject, request[p].level,
                               request[p].question)]
  /\ ask_openrouter(p, now)

\* EnterGate without the sleep of line 54: the caller proceeds at once
EnterGate_NoSleep(p, now) ==
  /\ LeaveGate(p, now)
  /\ UNCHANGED <<wake, wait_time>>

\* EnterGate measuring the delay one second short
EnterGate_Short(p, now) ==
  LET elapsed == now - last_call_time
      wt == Max(0, MIN_DELAY - 1 - elapsed)
  IN IF wt > 0
     THEN /\ api_lock' = p
          /\ pc' = [pc EXCEPT ![p] = "gate_sleep"]
          /\ wake' = [wake EXCEPT ![p] = now + wt]
          /\ wait_time' = [wait_time EXCEPT ![p] = wt]
          /\ UNCHANGED <<last_call_time, attempt, log, ga_result, http, prompt, body,
                       last_post>>
     ELSE /\ LeaveGate(p, now)
          /\ UNCHANGED <<wake, wait_time>>

\* EnterGate sleeping the whole of MIN_DELAY whenever it sleeps
EnterGate_Fixed(p, now) ==
  LET elapsed == now - last_call_time
      wt == IF elapsed < MIN_DELAY THEN MIN_DELAY ELSE 0
  IN IF wt > 0
     THEN /\ api_lock' = p
          /\ pc' = [pc EXCEPT ![p] = "gate_sleep"]
          /\ wake' = [wake EXCEPT ![p] = now + wt]
          /\ wait_time' = [wait_time EXCEPT ![p] = wt]
          /\ UNCHANGED <<last_call_time, attempt, log, ga_result, http, prompt, body,
                       last_post>>
     ELSE /\ LeaveGate(p, now)
          /\ UNCHANGED <<wake, wait_time>>

\* wait_for_rate_limit lines 48-54, with the lock free
EnterGate(p, now) ==
  LET elapsed == now - last_call_time
      wt == Max(0, MIN_DELAY - elapsed)
  IN IF wt > 0
     THEN /\ api_lock' = p
          /\ pc' = [pc EXCEPT ![p] = "gate_sleep"]
          /\ wake' = [wake EXCEPT ![p] = now + wt]
          /\ wait_time' = [wait_time EXCEPT ![p] = wt]
          /\ UNCHANGED <<last_call_time, attempt, log, ga_result, http, prompt, body,
                       last_post>>
     ELSE /\ LeaveGate(p, now)
          /\ UNCHANGED <<wake, wait_time>>

\* a lock that is released before the sleep: it never keeps anyone out
LockFree_Always == TRUE

\* a lock that is never handed on
LockFree_Never == FALSE

LockFree == api_lock = NoOne

\* ask_tutor checking the key before it enters the gate
ask_tutor_KeyFirst(p) ==
  /\ pc[p] = "idle"
  /\ \A q \in Requests : (1 < q /\ q < p) => pc[q] # "idle"
  /\ IF ~api_key
     THEN /\ Finish(p, HTTPException(500))
          /\ UNCHANGED <<api_lock, last_call_time, wake, wait_time, attempt,
                         log, prompt, last_post>>
     ELSE IF LockFree
     THEN EnterGate(p, clock)
     ELSE /\ pc' = [pc EXCEPT ![p] = "lock_wait"]
          /\ UNCHANGED <<api_lock, last_call_time, wake, wait_time, attempt,
                         log, ga_result, http, prompt, body, last_post>>
  /\ UNCHANGED <<clock, api_key, request, resp>>

\* a request arrives: ask_tutor runs up to its first suspension.  The
\* requests other than the first are interchangeable, so they are taken to
\* arrive in the order of their numbers.
ask_tutor(p) ==
  /\ pc[p] = "idle"
  /\ \A q \in Requests : (1 < q /\ q < p) => pc[q] # "idle"
  /\ IF LockFree
     THEN EnterGate(p, clock)
     ELSE /\ pc' = [pc EXCEPT ![p] = "lock_wait"]
          /\ UNCHANGED <<api_lock, last_call_time, wake, wait_time, attempt,
                         log, ga_result, http, prompt, body, last_post>>
  /\ UNCHANGED <<clock, api_key, request, resp>>

\* a request waiting in api_lock.acquire() gets the lock
acquire(p) ==
  /\ pc[p] = "lock_wait"
  /\ LockFree
  /\ EnterGate(p, clock)
  /\ UNCHANGED <<clock, api_key, request, resp>>

\* the asyncio.sleep(wait_time) of line 54 returns, at its deadline or later
wait_for_rate_limit(p) ==
  /\ pc[p] = "gate_sleep"
  /\ clock' = Max(clock, wake[p])
  /\ wake' = [wake EXCEPT ![p] = 0]
  /\ wait_time' = [wait_time EXCEPT ![p] = 0]
  /\ LeaveGate(p, clock')
  /\ UNCHANGED <<api_key, request, resp>>

\* client.post of the current attempt comes back with r
post_returns(p, r) ==
  /\ pc[p] = "post"
  /\ resp' = [resp EXCEPT ![p] = r]
  /\ LET a == attempt[p]
         s == OnResponse(a, r)
         seen == Append(log[p], RespEv(a, r))
     IN CASE s.act = "end" ->
               /\ Finish(p, s.res)
               /\ log' = [log EXCEPT ![p] = seen]
               /\ UNCHANGED <<attempt, wake, last_post>>
          [] s.act = "sleep" ->
               /\ pc' = [pc EXCEPT ![p] = "backoff"]
               /\ wake' = [wake EXCEPT ![p] = clock + s.d]
               /\ log' = [log EXCEPT ![p] = Append(seen, SleepEv(s.d))]
               /\ UNCHANGED <<attempt, ga_result, http, body, last_post>>
          [] s.act = "next" ->
               /\ pc' = [pc EXCEPT ![p] = "post"]
               /\ attempt' = [attempt EXCEPT ![p] = a + 1]
               /\ log' = [log EXCEPT ![p] = Append(seen, CallEv(a + 1))]
               /\ last_post' = clock
               /\ UNCHANGED <<wake, ga_result, http, body>>
  /\ UNCHANGED <<clock, api_key, api_lock, last_call_time, wait_time, request,
                 prompt>>

\* backoff_returns raising 502 when the sleep followed the final attempt
backoff_returns_Raises(p) ==
  /\ pc[p] = "backoff"
  /\ clock' = Max(clock, wake[p])
  /\ wake' = [wake EXCEPT ![p] = 0]
  /\ IF attempt[p] < retries
     THEN Post(p, attempt[p] + 1, clock')
     ELSE /\ Finish(p, HTTPException(502))
          /\ UNCHANGED <<attempt, log, last_post>>
  /\ UNCHANGED <<api_key, api_lock, last_call_time, wait_time, resp, request,
                 prompt>>

\* backoff_returns with a loop of one attempt more
backoff_returns_ExtraAttempt(p) ==
  /\ pc[p] = "backoff"
  /\ clock' = Max(clock, wake[p])
  /\ wake' = [wake EXCEPT ![p] = 0]
  /\ IF attempt[p] < retries + 1
     THEN Post(p, attempt[p] + 1, clock')
     ELSE /\ Finish(p, ReturnNone)
          /\ UNCHANGED <<attempt, log, last_post>>
  /\ UNCHANGED <<api_key, api_lock, last_call_time, wait_time, resp, request,
                 prompt>>

\* backoff_returns stamping last_call_time when a retry starts
backoff_returns_Writes(p) ==
  /\ pc[p] = "backoff"
  /\ clock' = Max(clock, wake[p])
  /\ wake' = [wake EXCEPT ![p] = 0]
  /\ last_call_time' = clock'
  /\ IF attempt[p] < retries
     THEN Post(p, attempt[p] + 1, clock')
     ELSE /\ Finish(p, ReturnNone)
          /\ UNCHANGED <<attempt, log, last_post>>
  /\ UNCHANGED <<api_key, api_lock, wait_time, resp, request, prompt>>

\* a backoff asyncio.sleep (lines 112, 122, 130) returns, at its deadline or
\* later: the next iteration of the loop, or its end
backoff_returns(p) ==
  /\ pc[p] = "backoff"
  /\ clock' = Max(clock, wake[p])
  /\ wake' = [wake EXCEPT ![p] = 0]
  /\ IF attempt[p] < retries
     THEN Post(p, attempt[p] + 1, clock')
     ELSE /\ Finish(p, ReturnNone)
          /\ UNCHANGED <<attempt, log, last_post>>
  /\ UNCHANGED <<api_key, api_lock, last_call_time, wait_time, resp, request,
                 prompt>>

\* the replies the upstream gives to request p: every reply to the first
\* request, a success to the others
Serves(p) == IF p = 1 THEN Responses ELSE BackgroundResponses

Next ==
  \/ \E p \in Requests : ask_tutor(p)
  \/ \E p \in Requests : acquire(p)
  \/ \E p \in Requests : wait_for_rate_limit(p)
  \/ \E p \in Requests : \E r \in Serves(p) : post_returns(p, r)
  \/ \E p \in Requests : backoff_returns(p)

Spec == Init /\ [][Next]_vars

\* The replies of the runs that are checked for progress: one reply of each
\* class, a reply with text and a reply that is blank once trimmed.
LiveContents == {<<"a">>, <<" ">>}

LiveResponses == {r \in Responses : r.kind = "json" => r.content \in LiveContents}

LiveServes(p) == IF p = 1 THEN LiveResponses ELSE BackgroundResponses

FairNext ==
  \/ \E p \in Requests : ask_tutor(p)
  \/ \E p \in Requests : acquire(p)
  \/ \E p \in Requests : wait_for_rate_limit(p)
  \/ \E p \in Requests : \E r \in LiveServes(p) : post_returns(p, r)
  \/ \E p \in Requests : backoff_returns(p)

\* The event loop keeps running the coroutines that are ready: a waiter of
\* the free lock gets it, a sleep returns, and a post returns, with a reply
\* or, after the timeout of 30 seconds (line 97), with a transport error.
\* Nothing makes a client send a request.
Progress ==
  \E p \in Requests :
    \/ acquire(p)
    \/ wait_for_rate_limit(p)
    \/ \E r \in LiveServes(p) : post_returns(p, r)
    \/ backoff_returns(p)

Fairness == WF_vars(Progress)

FairSpec == Init /\ [][FairNext]_vars /\ Fairness

\* ------------------------------------------------------------ build_prompt alone
\* The subjects, levels and questions build_prompt is applied to: the keys
\* of `prompts` in several mixes of case, strings that are no key, and
\* levels and questions that are empty or hold a quotation mark or a line
\* break.
PromptSubjects ==
  { <<"m", "a", "t", "h">>,
    <<"M", "a", "t", "h">>,
    <<"M", "A", "T", "H">>,
    <<"m", "A", "t", "H">>,
    <<"s", "c", "i", "e", "n", "c", "e">>,
    <<"S", "c", "i", "e", "n", "c", "e">>,
    <<"s", "s", "t">>,
    <<"S", "S", "T">>,
    <<"E", "n", "g", "l", "i", "s", "h">>,
    <<"B", "I", "O", "L", "O", "G", "Y">>,
    <<"C", "h", "e", "m", "i", "s", "t", "r", "y">>,
    <<"c", "o", "d", "i", "n", "g">>,
    <<"H", "i", "s", "t", "o", "r", "y">>,
    <<"h", "I", "s", "T", "o", "R", "y">>,
    <<"a", "r", "t">>,
    <<"m", "a", "t", "h", "s">>,
    <<"m", "a", "t">>,
    <<" ", "m", "a", "t", "h">>,
    <<>> }

PromptLevels ==
  { <<"P", "5">>,
    <<>>,
    <<"O", "\"", "L">> }

PromptQuestions ==
  { <<"2", "+", "2", "?">>,
    <<>>,
    <<"s", "a", "y", " ", "\"", "h", "i", "\"">>,
    <<"a", "\n", "b">> }

PromptRequests ==
  {TutorRequest(student(1), sub, lev, q) :
     sub \in PromptSubjects, lev \in PromptLevels, q \in PromptQuestions}

\* request 1 carries any of these requests
InitPrompt ==
  /\ clock = Epoch
  /\ api_key = TRUE
  /\ api_lock = NoOne
  /\ last_call_time = SENTINEL
  /\ pc = [p \in Requests |-> "idle"]
  /\ wake = [p \in Requests |-> 0]
  /\ wait_time = [p \in Requests |-> 0]
  /\ attempt = [p \in Requests |-> 0]
  /\ resp = [p \in Requests |-> NoResponse]
  /\ log = [p \in Requests |-> <<>>]
  /\ ga_result = [p \in Requests |-> Pending]
  /\ http = [p \in Requests |-> NoHttp]
  /\ \E r \in PromptRequests :
       request = [p \in Requests |-> IF p = 1 THEN r ELSE TutorRequestOf(p)]
  /\ prompt = [p \in Requests |-> <<>>]
  /\ body = [p \in Requests |-> <<>>]
  /\ last_post = 0

\* line 137 of ask_tutor alone: the prompt of request p is built
prompt_built(p) ==
  /\ prompt[p] = <<>>
  /\ prompt' = [prompt EXCEPT ![p] =
                  build_prompt(request[p].subject, request[p].level,
                               request[p].question)]
  /\ UNCHANGED <<clock, api_key, api_lock, last_call_time, pc, wake,
                 wait_time, attempt, resp, log, ga_result, http, request,
                 body, last_post>>

NextPrompt == \E p \in Requests : prompt_built(p)

SpecPrompt == InitPrompt /\ [][NextPrompt]_vars


\* ================================================================ claims
\* request p has passed the gate
Passed(p) == pc[p] \in {"post", "backoff", "done"}
\* the step in which request p writes last_call_time (line 55)
Writes(p) == ~Passed(p) /\ Passed(p)'
\* the step in which request p starts a client.post (line 100)
Posts(p) == attempt'[p] # attempt[p]

\* the replies in the log of request p, and what it did last
RespIdx(p) == {i \in 1..Len(log[p]) : log[p][i].ev = "resp"}
Calls(p) == {i \in 1..Len(log[p]) : log[p][i].ev = "call"}
Sleeps(p) == {i \in 1..Len(log[p]) : log[p][i].ev = "sleep"}
LastEv(p) == log[p][Len(log[p])]
HasReply(p) == RespIdx(p) # {}
LastResp(p) == CHOOSE i \in RespIdx(p) : \A j \in RespIdx(p) : j <= i
IsPrefix(s, t) == Len(s) <= Len(t) /\ SubSeq(t, 1, Len(s)) = s

\* C1: any two consecutive values written to last_call_time differ by at
\* least MIN_DELAY; only the first write, from the sentinel, is exempt.
C1_WriteSpacing ==
  [][\A p \in Requests :
       Writes(p) => /\ last_call_time' = clock'
                    /\ last_call_time # SENTINEL
                         => last_call_time' - last_call_time >= MIN_DELAY]_vars

\* two requests have written last_call_time, the second MIN_DELAY or more
\* after the start
C1_Witness ==
  \E p, q \in Requests :
    p # q /\ Passed(p) /\ Passed(q) /\ last_call_time >= Epoch + MIN_DELAY

\* C2: at most one caller is inside the critical section, the lock is held
\* while that caller sleeps, and between its read of last_call_time and its
\* own write no other caller enters the section or writes last_call_time.
C2_MutualExclusion ==
  /\ [](\A p \in Requests : pc[p] = "gate_sleep" => api_lock = p)
  /\ [][\A p \in Requests :
          (pc[p] = "gate_sleep" /\ pc'[p] = "gate_sleep")
            => /\ last_call_time' = last_call_time
               /\ api_lock' = p
               /\ \A q \in Requests \ {p} : ~Writes(q)]_vars

\* one caller sleeps in the critical section while another waits for the lock
C2_Witness ==
  \E p, q \in Requests :
    p # q /\ pc[p] = "gate_sleep" /\ pc[q] = "lock_wait"

\* C3 as stated: the starts of any two consecutive upstream call attempts,
\* of the same or of different requests, are at least MIN_DELAY apart.
C3_Original ==
  [][\A p \in Requests :
       (Posts(p) /\ last_post # 0) => last_post' - last_post >= MIN_DELAY]_vars

\* C3 amended: no attempt of a request starts before the request passed the
\* gate; a first attempt starts as its request passes the gate, MIN_DELAY or
\* more after the request before it passed; a retry does not pass the gate.
C3_AdmissionSpacing ==
  [][\A p \in Requests :
       Posts(p) =>
         /\ Passed(p)'
         /\ ~Passed(p) =>
              /\ attempt'[p] = 1
              /\ last_call_time' = clock'
              /\ last_call_time # SENTINEL
                   => last_call_time' - last_call_time >= MIN_DELAY
         /\ Passed(p) =>
              /\ attempt'[p] = attempt[p] + 1
              /\ last_call_time' = last_call_time]_vars

\* two requests have posted, one of them is at a retry that started less
\* than MIN_DELAY after the latest pass of the gate
C3_Witness ==
  \E p, q \in Requests :
    /\ p # q /\ attempt[p] >= 2 /\ attempt[q] >= 1
    /\ pc[p] = "post" /\ last_post - last_call_time < MIN_DELAY

\* v is c without its leading and trailing whitespace
Trimmed(c, v) ==
  /\ v # <<>>
  /\ Head(v) \notin Whitespace
  /\ v[Len(v)] \notin Whitespace
  /\ \E i \in 0..Len(c) : \E j \in 0..(Len(c) - i) :
       /\ SubSeq(c, i + 1, Len(c) - j) = v
       /\ \A k \in 1..i : c[k] \in Whitespace
       /\ \A k \in (Len(c) - j + 1)..Len(c) : c[k] \in Whitespace

\* C4 as stated: ask_openrouter ends in one of three ways only: a non-empty
\* stripped string, the missing-key error 500, or the upstream error 502.
C4_Original ==
  \A p \in Requests :
    pc[p] = "done" =>
      \/ /\ ga_result[p].kind = "return"
         /\ Trimmed(resp[p].content, ga_result[p].value)
      \/ ga_result[p] = HTTPException(500) /\ ~api_key
      \/ ga_result[p] = HTTPException(502)

\* what ask_openrouter does when every reply is empty
RECURSIVE EmptyRun(_)
EmptyRun(a) ==
  IF a = retries
  THEN <<CallEv(a), Event("resp", "empty", a)>>
  ELSE <<CallEv(a), Event("resp", "empty", a), SleepEv(Pow2(a))>> \o EmptyRun(a + 1)

AllEmpty(p) == HasReply(p) /\ \A i \in RespIdx(p) : log[p][i].kind = "empty"

\* C5: when every attempt returns an empty reply, ask_openrouter makes
\* exactly `retries` attempts, sleeps 2^attempt after each but the last, and
\* fails with 502.
C5_EmptyReplies ==
  \A p \in Requests :
    AllEmpty(p) =>
      /\ IsPrefix(log[p], EmptyRun(1))
      /\ pc[p] = "done" <=> log[p] = EmptyRun(1)
      /\ pc[p] = "done" =>
           /\ ga_result[p] = HTTPException(502)
           /\ http[p] = Http(502, <<>>)
           /\ Cardinality(Calls(p)) = retries
           /\ Cardinality(Sleeps(p)) = retries - 1

\* a call has ended after nothing but empty replies
C5_Witness ==
  \E p \in Requests : AllEmpty(p) /\ pc[p] = "done"

\* C6 as stated: a failed attempt that is not a 429 ends the call with 502
\* when it was the final one, and is otherwise followed by a sleep of
\* 2^attempt before anything else.
C6_Original ==
  \A p \in Requests : \A i \in RespIdx(p) :
    log[p][i].kind \in {"transport", "malformed", "status", "empty"} =>
      IF log[p][i].arg = retries
      THEN pc[p] = "done" /\ ga_result[p] = HTTPException(502)
      ELSE i < Len(log[p]) /\ log[p][i + 1] = SleepEv(Pow2(log[p][i].arg))

DigitSeq == <<"0", "1", "2", "3", "4", "5", "6", "7", "8", "9">>
RECURSIVE Decimal(_)
Decimal(n) ==
  IF n < 10 THEN <<DigitSeq[n + 1]>>
  ELSE Append(Decimal(n \div 10), DigitSeq[(n % 10) + 1])

Is429(r) == r.kind = "status" /\ r.status = 429

\* C8: a 429 with Retry-After: n is followed by a sleep of exactly n seconds,
\* whatever the attempt; a 429 without the header by a sleep of 2^attempt.
C8_RetryAfter ==
  \A p \in Requests :
    (HasReply(p) /\ Is429(resp[p])) =>
      LET i == LastResp(p)
          a == log[p][i].arg
          h == resp[p].retry_after
      IN /\ log[p][i].kind = "429"
         /\ h = NoHeader =>
              i < Len(log[p]) /\ log[p][i + 1] = SleepEv(Pow2(a))
         /\ \A n \in 0..20 :
              h = Decimal(n) =>
                i < Len(log[p]) /\ log[p][i + 1] = SleepEv(n)
         /\ (pc[p] = "backoff" /\ h = NoHeader) => wake[p] <= clock + Pow2(a)
         /\ \A n \in 0..20 :
              (pc[p] = "backoff" /\ h = Decimal(n)) => wake[p] <= clock + n

\* a request sleeps on a 429 with Retry-After: 12 that answered a later
\* attempt than the first
C8_Witness ==
  \E p \in Requests :
    /\ pc[p] = "backoff" /\ Is429(resp[p]) /\ attempt[p] >= 2
    /\ resp[p].retry_after = <<"1", "2">>
    /\ LastEv(p) = SleepEv(12)

\* C9: a first attempt that succeeds with non-empty content makes
\* ask_openrouter return that text stripped, after one post and no sleep; the
\* first non-empty reply of any attempt ends the loop.
C9_FirstSuccess ==
  \A p \in Requests :
    /\ \A i \in RespIdx(p) :
         log[p][i].kind = "ok" =>
           /\ i = Len(log[p])
           /\ pc[p] = "done"
           /\ ga_result[p].kind = "return"
           /\ Trimmed(resp[p].content, ga_result[p].value)
           /\ http[p] = Http(200, ga_result[p].value)
    /\ (Len(log[p]) >= 2 /\ log[p][2].kind = "ok") =>
         /\ log[p] = <<CallEv(1), Event("resp", "ok", 1)>>
         /\ attempt[p] = 1

\* a first attempt succeeded with content that had whitespace to strip
C9_Witness ==
  \E p \in Requests :
    /\ pc[p] = "done" /\ Len(log[p]) = 2 /\ log[p][2].kind = "ok"
    /\ resp[p].content # ga_result[p].value

\* C10 as stated: with the key missing the handler fails at once, no wait or
\* sleep before the failure: a request fails in the step in which it arrives.
C10_Original ==
  [][\A p \in Requests :
       (~api_key /\ pc[p] # "done" /\ pc'[p] = "done") => pc[p] = "idle"]_vars

\* C10 amended: with the key missing ask_openrouter fails at once with 500,
\* without any post and without a sleep of its own, and so does the handler
\* once the request has passed the rate gate, where it may have waited for
\* the lock and slept up to MIN_DELAY.
C10_MissingKey ==
  /\ [](~api_key =>
         /\ last_post = 0
         /\ \A p \in Requests :
              /\ attempt[p] = 0 /\ log[p] = <<>>
              /\ pc[p] \in {"idle", "lock_wait", "gate_sleep", "done"}
              /\ pc[p] = "gate_sleep" => wait_time[p] <= MIN_DELAY
              /\ pc[p] = "done" =>
                   /\ ga_result[p] = HTTPException(500)
                   /\ http[p] = Http(500, <<>>))
  /\ [][\A p \in Requests :
          (~api_key /\ Writes(p)) => pc'[p] = "done"]_vars

\* with the key missing two requests have failed, the second after the gate
\* made it wait
C10_Witness ==
  /\ ~api_key
  /\ \E p, q \in Requests :
       /\ p # q /\ pc[p] = "done" /\ pc[q] = "done"
       /\ last_call_time >= Epoch + MIN_DELAY

\* C11: a 200 reply carries the fields of the request unchanged and an answer
\* that is not empty, the apology when ask_openrouter handed back nothing; a
\* request that fails, or has not ended, has no body.
C11_Response ==
  \A p \in Requests :
    /\ http[p].status = 200 =>
         /\ pc[p] = "done"
         /\ Len(body[p]) = 1
         /\ body[p][1].student_id = request[p].student_id
         /\ body[p][1].subject = request[p].subject
         /\ body[p][1].level = request[p].level
         /\ body[p][1].question = request[p].question
         /\ DOMAIN body[p][1] = {"student_id", "subject", "level", "question", "answer"}
         /\ body[p][1].answer # <<>>
         /\ ga_result[p].kind \in {"return", "return_none"}
         /\ body[p][1].answer =
              IF ga_result[p].kind = "return" /\ ga_result[p].value # <<>>
              THEN ga_result[p].value ELSE Apology
    /\ http[p].status # 200 => body[p] = <<>>
    /\ (pc[p] = "done" /\ ga_result[p].kind \in {"HTTPException", "ValueError"})
         => http[p].status # 200

\* a request got the apology in a 200 reply
C11_Witness ==
  \E p \in Requests :
    /\ pc[p] = "done" /\ http[p].status = 200
    /\ ga_result[p] = ReturnNone
    /\ body[p] = <<TutorResponse(TutorRequestOf(p), Apology)>>

\* C12: the rate gate only delays: a request that waits for the lock or
\* sleeps in the gate passes the gate in the end, and then the lock is not
\* its any more.
C12_GatePasses ==
  <>[](/\ \A p \in Requests : pc[p] \notin {"lock_wait", "gate_sleep"}
       /\ api_lock = NoOne)

\* every request has passed the gate, two of them after a sleep in it, and
\* the lock is free
C12_Witness ==
  /\ \A p \in Requests : Passed(p)
  /\ last_call_time >= Epoch + 2 * MIN_DELAY
  /\ api_lock = NoOne

\* sub occurs in s
Contains(sub, s) ==
  \E i \in 0..(Len(s) - Len(sub)) : SubSeq(s, i + 1, i + Len(sub)) = sub

EndsWith(s, t) ==
  Len(t) <= Len(s) /\ SubSeq(s, Len(s) - Len(t) + 1, Len(s)) = t

\* the sentences a prompt can open with
Personas == {prompts[i].intro : i \in 1..Len(prompts)} \cup {intro_default}

\* the three lines of the template around a persona and a closing sentence
Template(intro, level, question, closing) ==
  intro \o <<" ", "T", "h", "e", " ", "s", "t", "u", "d", "e", "n", "t", " ", "i",
      "s", " ", "a", "t", " ", "a", " ">> \o level
    \o <<" ", "l", "e", "v", "e", "l", ".">> \o <<"\n">>
    \o <<"T", "h", "e", "y", " ", "a", "s", "k", "e", "d", ":", " ", "\"">>
    \o question \o <<"\"">> \o <<"\n">>
    \o closing

ClosingStated ==
  <<"P", "l", "e", "a", "s", "e", " ", "e", "x", "p", "l", "a", "i", "n",
      " ", "i", "n", " ", "a", " ", "c", "l", "e", "a", "r", ",", " ",
      "f", "r", "i", "e", "n", "d", "l", "y", " ", "t", "o", "n", "e",
      " ", "w", "i", "t", "h", " ", "e", "x", "a", "m", "p", "l", "e",
      "s", " ", "t", "o", " ", "h", "e", "l", "p", " ", "t", "h", "e",
      "m", " ", "u", "n", "d", "e", "r", "s", "t", "a", "n", "d", ".">>

ClosingOfCode ==
  <<"P", "l", "e", "a", "s", "e", " ", "e", "x", "p", "l", "a", "i", "n",
      " ", "i", "n", " ", "a", " ", "c", "l", "e", "a", "r", ",", " ",
      "f", "r", "i", "e", "n", "d", "l", "y", " ", "t", "o", "n", "e",
      " ", "w", "i", "t", "h", " ", "e", "x", "a", "m", "p", "l", "e",
      "s", ".">>

\* C13 as stated: the prompt is the three-line template and ends with the
\* closing sentence "Please explain in a clear, friendly tone with examples
\* to help them understand."
C13_Original ==
  \A p \in Requests :
    prompt[p] # <<>> =>
      /\ \E intro \in Personas :
           prompt[p] = Template(intro, request[p].level, request[p].question,
                                ClosingStated)
      /\ EndsWith(prompt[p], ClosingStated)

\* C13: the prompt is the three-line template: a persona sentence, then
\* " The student is at a {level} level.", a line break, 'They asked:
\* "{question}"', a line break and the closing sentence "Please explain in a
\* clear, friendly tone with examples."; level and question stand in it as
\* they came (nothing cut, no quotation mark escaped), and the prompt ends
\* with that closing sentence.
C13_Template ==
  \A p \in Requests :
    prompt[p] # <<>> =>
      /\ \E intro \in Personas :
           /\ prompt[p] = Template(intro, request[p].level,
                                   request[p].question, ClosingOfCode)
           /\ Len(prompt[p]) = Len(intro) + Len(request[p].level)
                                 + Len(request[p].question) + 99
      /\ Contains(request[p].level, prompt[p])
      /\ Contains(request[p].question, prompt[p])
      /\ EndsWith(prompt[p], ClosingOfCode)
      /\ ~EndsWith(prompt[p], ClosingStated)

\* a prompt was built from a question and a level that hold a quotation mark
C13_Witness ==
  \E p \in Requests :
    /\ prompt[p] # <<>>
    /\ Contains(<<"\"">>, request[p].question)
    /\ Contains(<<"\"">>, request[p].level)

\* a and b are the same string up to the case of its letters
EqIgnoreCase(a, b) ==
  /\ Len(a) = Len(b)
  /\ \A i \in 1..Len(a) :
       \/ a[i] = b[i]
       \/ \E k \in 1..Len(UpperCase) :
            {a[i], b[i]} = {UpperCase[k], LowerCase[k]}

\* C14: a subject that is a key of the persona table in any mix of upper and
\* lower case gets that key's persona sentence at the head of the prompt,
\* and every other subject gets "You are a helpful AI tutor.".
C14_Persona ==
  \A p \in Requests :
    prompt[p] # <<>> =>
      LET sub == request[p].subject
          rest == Template(<<>>, request[p].level, request[p].question,
                           ClosingOfCode)
          keyed == {i \in 1..Len(prompts) : EqIgnoreCase(sub, prompts[i].key)}
      IN /\ \A i \in keyed : prompt[p] = prompts[i].intro \o rest
         /\ keyed = {} => prompt[p] = intro_default \o rest

\* a prompt was built for a subject that is a key only once its case is
\* folded, and one for a subject that is no key
C14_Witness ==
  /\ prompt[1] = intro_history \o Template(<<>>, request[1].level,
                                            request[1].question, ClosingOfCode)
  /\ request[1].subject # key_history
  /\ \E p \in Requests :
       /\ prompt[p] # <<>>
       /\ IsPrefix(intro_default, prompt[p])

\* C15: every call of ask_openrouter ends, whatever the upstream answers,
\* 429 after 429 included, and it makes at most `retries` attempts, numbered
\* 1..retries.
C15_Terminates ==
  /\ [](\A p \in Requests :
          /\ attempt[p] \in 0..retries
          /\ \A i \in Calls(p) : log[p][i].arg \in 1..retries
          /\ \A i, j \in Calls(p) : i < j => log[p][i].arg < log[p][j].arg
          /\ pc[p] \in {"post", "backoff"} => attempt[p] >= 1)
  /\ <>[](\A p \in Requests : pc[p] \notin {"post", "backoff"})

\* a call has ended after `retries` attempts that were all answered 429
C15_Witness ==
  \E p \in Requests :
    /\ pc[p] = "done" /\ attempt[p] = retries
    /\ Cardinality(RespIdx(p)) = retries
    /\ \A i \in RespIdx(p) : log[p][i].kind = "429"

\* C16 as stated: attempts of two requests are never in flight together.
C16_Original ==
  \A p, q \in Requests :
    p # q => ~(pc[p] = "post" /\ pc[q] = "post")

\* C16 amended: the gate serializes the passages through the gate, not the
\* upstream calls: the lock is held by a request that sleeps in the gate and
\* by no other, no two requests sleep in the gate together, and a request
\* whose attempt is in flight, which sleeps between attempts or which has
\* ended does not hold the lock.
C16_GateOnly ==
  /\ api_lock # NoOne => pc[api_lock] = "gate_sleep"
  /\ \A p \in Requests : Passed(p) => api_lock # p
  /\ \A p, q \in Requests :
       p # q => ~(pc[p] = "gate_sleep" /\ pc[q] = "gate_sleep")

\* the attempts of two requests are in flight while a third request holds
\* the lock
C16_Witness ==
  \E p, q \in Requests :
    /\ p # q /\ pc[p] = "post" /\ pc[q] = "post"
    /\ api_lock \notin {NoOne, p, q}

\* C17 as stated: a call ends with 502 only when its final attempt failed
\* otherwise than by a 429, and a call whose last reply was a 429 ends without
\* raising and without an answer, the handler replying 200 with the apology.
C17_Original ==
  \A p \in Requests :
    pc[p] = "done" /\ HasReply(p) =>
      LET last == log[p][LastResp(p)]
      IN /\ ga_result[p] = HTTPException(502) =>
              /\ last.arg = retries
              /\ last.kind \in {"transport", "malformed", "status", "empty"}
         /\ last.kind = "429" =>
              /\ ga_result[p] = ReturnNone
              /\ http[p] = Http(200, Apology)

\* C18: last_call_time is written only by the request that holds the lock,
\* or takes the free lock, in the step in which it leaves the gate; a step of
\* a request that has left the gate (an attempt, a backoff sleep, the end of
\* the call) changes neither last_call_time nor the lock; last_call_time
\* never decreases.
C18_WriteUnderLock ==
  [][/\ last_call_time' >= last_call_time
     /\ last_call_time' # last_call_time =>
          \E p \in Requests :
            /\ Writes(p)
            /\ api_lock \in {NoOne, p}
            /\ api_lock = NoOne => pc[p] \in {"idle", "lock_wait"}
            /\ api_lock = p => pc[p] = "gate_sleep"
            /\ api_lock' = NoOne
     /\ \A p \in Requests :
          (Passed(p) /\ (pc'[p] # pc[p] \/ log'[p] # log[p])) =>
            /\ last_call_time' = last_call_time
            /\ api_lock' = api_lock]_vars

\* a request is at a retry that started after the latest write of
\* last_call_time
C18_Witness ==
  \E p \in Requests :
    /\ attempt[p] >= 2 /\ pc[p] = "post"
    /\ last_post > last_call_time

\* C19: the holder of the lock sleeps MIN_DELAY - (now - last_call_time) when
\* that is positive, never more than MIN_DELAY, and does not sleep when
\* MIN_DELAY or more has passed since the last write, as at the first call,
\* from the sentinel; the write after the sleep is of the time at which the
\* sleep returned.
C19_SleepLength ==
  [][\A p \in Requests :
       LET elapsed == clock - last_call_time
           enters == pc[p] \in {"idle", "lock_wait"} /\ pc'[p] \notin {"idle", "lock_wait"}
       IN /\ (enters /\ elapsed < MIN_DELAY) =>
               /\ pc'[p] = "gate_sleep"
               /\ wait_time'[p] = MIN_DELAY - elapsed
               /\ wait_time'[p] \in 1..MIN_DELAY
               /\ wake'[p] = clock + wait_time'[p]
               /\ last_call_time' = last_call_time
          /\ (enters /\ elapsed >= MIN_DELAY) =>
               /\ Passed(p)'
               /\ clock' = clock
               /\ last_call_time' = clock
          /\ (enters /\ last_call_time = SENTINEL) => Passed(p)'
          /\ (pc[p] = "gate_sleep" /\ pc'[p] # "gate_sleep") =>
               /\ Passed(p)'
               /\ clock' >= wake[p]
               /\ last_call_time' = clock']_vars

\* a request sleeps in the gate for a part of MIN_DELAY only
C19_Witness ==
  \E p \in Requests :
    /\ pc[p] = "gate_sleep"
    /\ wait_time[p] \in 1..(MIN_DELAY - 1)

\* C20: with the key missing a request fails with 500 in the step in which
\* it leaves the gate, after any sleep there: the step writes last_call_time
\* although nothing was posted, and a request that sleeps in the gate then
\* sleeps until MIN_DELAY after the write of the failed request before it.
C20_KeylessGate ==
  /\ [][\A p \in Requests :
          (~api_key /\ pc[p] # "done" /\ pc'[p] = "done") =>
            /\ pc[p] \in {"idle", "lock_wait", "gate_sleep"}
            /\ last_call_time' = clock'
            /\ last_call_time' > last_call_time
            /\ http'[p] = Http(500, <<>>)
            /\ last_post' = 0]_vars
  /\ [](\A p \in Requests :
          (~api_key /\ pc[p] = "gate_sleep") =>
            /\ \E q \in Requests \ {p} :
                 pc[q] = "done" /\ http[q] = Http(500, <<>>)
            /\ wait_time[p] \in 1..MIN_DELAY
            /\ wake[p] = last_call_time + MIN_DELAY)

\* with the key missing one request has failed and the next one sleeps the
\* whole of MIN_DELAY in the gate
C20_Witness ==
  /\ ~api_key
  /\ \E p, q \in Requests :
       /\ pc[p] = "done" /\ http[p] = Http(500, <<>>)
       /\ pc[q] = "gate_sleep" /\ wait_time[q] = MIN_DELAY

====
